---- MODULE Spec2Model ----
(***************************************************************************)
(* Model of vfuse/server/server.go: the FUSE filesystem FS that relays     *)
(* every operation to the client over one connection.                      *)
(*                                                                         *)
(* Handler goroutines (Procs) run the relayed operations; each goes        *)
(* through sendPacket (clientOnce.Do(initClient), nextID, WritePacket),    *)
(* then receives on its own channel and maps the response to a status.     *)
(* One goroutine runs readFromClient.  The peer is not trusted: it may     *)
(* send any id with any body, and the transport may fail on any read or    *)
(* write.                                                                  *)
(***************************************************************************)
EXTENDS Integers, Sequences, FiniteSets, TLC

\* ---------------------------------------------------------------- bounds
MaxProcs == 2    \* handler goroutines the FUSE layer runs concurrently
MaxIds   == 2    \* calls that reach sendPacket (so nextid stays <= MaxIds)
MaxPkts  == 2    \* packets the read loop decodes

Procs == 1..MaxProcs
Ids   == 0..MaxIds       \* header ids the peer may send; MaxIds is never issued
Free  == 0               \* fs.mu unlocked
NilChan == 0

\* ------------------------------------------------------- message catalogue
Ops ==
  {"Chmod", "GetAttr", "Mkdir", "Open", "OpenDir", "Readlink", "Rename",
   "Rmdir", "Symlink", "Utimens", "Mknod", "Unlink", "Truncate",
   "Flush", "Read", "FileTruncate"}

FileOps == {"Flush", "Read", "FileTruncate"}

Kinds ==
  {"ChmodResponse", "AttrResponse", "MkdirResponse", "OpenResponse",
   "ReaddirResponse", "ReadlinkResponse", "RenameResponse", "RmdirResponse",
   "SymlinkResponse", "UtimeResponse", "MknodResponse", "UnlinkResponse",
   "TruncateResponse", "CloseResponse", "ReadResponse"}

\* Response kinds whose payload the handlers read, and the payload as a
\* number: Attr (0: nil), Handle, len(Entry), len(Target), len(Data).
PayKinds ==
  {"AttrResponse", "OpenResponse", "ReaddirResponse", "ReadlinkResponse",
   "ReadResponse"}

\* *pb.Error: nil, or a record with the three reason flags.
NilErr == [present |-> FALSE, NotExist |-> FALSE, ReadOnly |-> FALSE, NotDir |-> FALSE]

Errs ==
  {NilErr} \cup
  [present : {TRUE}, NotExist : BOOLEAN, ReadOnly : BOOLEAN, NotDir : BOOLEAN]

Pays == {0, 1}

Bodies ==
  {b \in [kind : Kinds, err : Errs, pay : Pays] :
     b.kind \in PayKinds \/ b.pay = 0}

NoBody == [kind |-> "none", err |-> NilErr, pay |-> 0]
NoPkt  == [id |-> -1, body |-> NoBody]
\* A message in a channel: the body, tagged with the Header.ID of the packet
\* it arrived in (the tag is the body's identity, the code never reads it).
NoMsg  == [hid |-> -1, body |-> NoBody]

\* A handler's return value: the fuse.Status and the payload (-1: nil / none).
R(st, pay) == [st |-> st, pay |-> pay]
NoResult == R("none", -1)

\* ------------------------------------------------------------------ state
VARIABLES
  once,       \* fs.clientOnce: "fresh", "running", "done"
  connCalls,  \* times fs.clientConn was called
  clients,    \* times vfuse.NewClient was called (fs.vc assigned)
  loops,      \* readFromClient goroutines started
  mu,         \* fs.mu: Free, or the handler holding it
  nextid,     \* fs.nextid
  res,        \* fs.res: id -> channel
  chan,       \* the channels made by nextID, each a buffer of capacity 1
  pc,         \* each handler's position
  op,         \* the operation each handler runs
  cid,        \* nextID's local id / sendPacket's id
  resc,       \* the channel a handler got from nextID
  msg,        \* the message a handler received
  result,     \* what the handler returns
  late,       \* the call was issued after the read loop died on a read error
  files,      \* handles of the file objects Open returned
  rpc,        \* readFromClient's position
  why,        \* why readFromClient returned
  rpkt,       \* readFromClient's p
  rresc,      \* readFromClient's resc
  npkts,      \* packets decoded so far
  ncalls,     \* calls that entered sendPacket so far
  delivered,  \* id -> number of bodies sent into the channel registered for it
  orphans,    \* ids of the calls in flight when ReadPacket first failed
  issued,     \* the ids nextID returned, in order
  wire,       \* ids of the requests written to the peer
  crashed     \* an unrecovered panic ended the process

vars ==
  <<once, connCalls, clients, loops, mu, nextid, res, chan, pc, op, cid, resc,
    msg, result, late, files, rpc, why, rpkt, rresc, npkts, ncalls, delivered,
    orphans, issued, wire, crashed>>

initVars  == <<once, connCalls, clients, loops>>
regVars   == <<mu, nextid, res>>
rdrVars   == <<rpc, why, rpkt, rresc, npkts, orphans>>
procVars  == <<pc, op, cid, resc, msg, result, late>>

ChanCap == 1
EmptyRes == [i \in {} |-> NilChan]

Init ==
  /\ once = "fresh" /\ connCalls = 0 /\ clients = 0 /\ loops = 0
  /\ mu = Free /\ nextid = 0 /\ res = EmptyRes
  /\ chan = <<>>
  /\ pc = [c \in Procs |-> "idle"]
  /\ op = [c \in Procs |-> "none"]
  /\ cid = [c \in Procs |-> -1]
  /\ resc = [c \in Procs |-> NilChan]
  /\ msg = [c \in Procs |-> NoMsg]
  /\ result = [c \in Procs |-> NoResult]
  /\ late = [c \in Procs |-> FALSE]
  /\ files = {}
  /\ rpc = "off" /\ why = "none" /\ rpkt = NoPkt /\ rresc = NilChan
  /\ npkts = 0 /\ ncalls = 0
  /\ delivered = [i \in Ids |-> 0]
  /\ orphans = {}
  /\ issued = <<>>
  /\ wire = {}
  /\ crashed = FALSE

\* ------------------------------------------------------------ fuseError
\* Mutant: the fall-through of an unrecognised reason returns OK.
fuseError_okDefault(err) ==
  IF ~err.present THEN "OK"
  ELSE IF err.NotExist THEN "ENOENT"
  ELSE IF err.ReadOnly THEN "EROFS"
  ELSE IF err.NotDir THEN "ENOTDIR"
  ELSE "OK"

fuseError(err) ==
  IF ~err.present THEN "OK"
  ELSE IF err.NotExist THEN "ENOENT"
  ELSE IF err.ReadOnly THEN "EROFS"
  ELSE IF err.NotDir THEN "ENOTDIR"
  ELSE "EIO"

\* pbTime dereferences its argument: a nil *time.Time panics.
pbTime(tnil) == IF tnil THEN "PANIC" ELSE "ok"

\* ----------------------------------------- the handlers, after <-resc
\* Each operator is what the handler of that name returns for the message b
\* it received.  A failed type assertion leaves res nil; "PANIC" is the nil
\* pointer dereference res.Err of a handler that does not return there.
Chmod(b) ==
  IF b.kind # "ChmodResponse" THEN R("EIO", -1)
  ELSE R(fuseError(b.err), -1)

GetAttr(b) ==
  IF b.kind # "AttrResponse" THEN R("EIO", -1)
  ELSE IF b.err.present THEN R(fuseError(b.err), -1)
  ELSE IF b.pay = 0 THEN R("EIO", -1)
  ELSE R("OK", b.pay)

\* GetAttr of the root name "": answered locally.
\* Mutant: the root is answered with a regular-file attribute.
GetAttrRoot_file == R("OK", 0)

GetAttrRoot == R("OK", 1)

Mkdir(b) ==
  IF b.kind # "MkdirResponse" THEN R("PANIC", -1)
  ELSE R(fuseError(b.err), -1)

\* Mutant: Open without the res.Handle == 0 check.
Open_anyHandle(b) ==
  IF b.kind # "OpenResponse" THEN R("EIO", -1)
  ELSE IF b.err.present THEN R(fuseError(b.err), -1)
  ELSE R("OK", b.pay)

Open(b) ==
  IF b.kind # "OpenResponse" THEN R("EIO", -1)
  ELSE IF b.err.present THEN R(fuseError(b.err), -1)
  ELSE IF b.pay = 0 THEN R("EIO", -1)
  ELSE R("OK", b.pay)

\* The stream is built from res.Entry before the error is looked at.
OpenDir(b) ==
  IF b.kind # "ReaddirResponse" THEN R("EIO", -1)
  ELSE R(fuseError(b.err), b.pay)

\* The string result "" is payload 0.
Readlink(b) ==
  IF b.kind # "ReadlinkResponse" THEN R("EIO", 0)
  ELSE IF b.err.present THEN R(fuseError(b.err), 0)
  ELSE R("OK", b.pay)

Rename(b) ==
  IF b.kind # "RenameResponse" THEN R("EIO", -1)
  ELSE R(fuseError(b.err), -1)

Rmdir(b) ==
  IF b.kind # "RmdirResponse" THEN R("PANIC", -1)
  ELSE R(fuseError(b.err), -1)

Symlink(b) ==
  IF b.kind # "SymlinkResponse" THEN R("EIO", -1)
  ELSE R(fuseError(b.err), -1)

Utimens(b) ==
  IF b.kind # "UtimeResponse" THEN R("EIO", -1)
  ELSE R(fuseError(b.err), -1)

Mknod(b) ==
  IF b.kind # "MknodResponse" THEN R("EIO", -1)
  ELSE R(fuseError(b.err), -1)

Unlink(b) ==
  IF b.kind # "UnlinkResponse" THEN R("EIO", -1)
  ELSE R(fuseError(b.err), -1)

Truncate(b) ==
  IF b.kind # "TruncateResponse" THEN R("EIO", -1)
  ELSE R(fuseError(b.err), -1)

Flush(b) ==
  IF b.kind # "CloseResponse" THEN R("EIO", -1)
  ELSE R(fuseError(b.err), -1)

\* file.Read never looks at res.Err.
Read(b) ==
  IF b.kind # "ReadResponse" THEN R("EIO", -1)
  ELSE R("OK", b.pay)

FileTruncate(b) ==
  IF b.kind # "TruncateResponse" THEN R("EIO", -1)
  ELSE R(fuseError(b.err), -1)

Reply(o, b) ==
  CASE o = "Chmod" -> Chmod(b)
    [] o = "GetAttr" -> GetAttr(b)
    [] o = "Mkdir" -> Mkdir(b)
    [] o = "Open" -> Open(b)
    [] o = "OpenDir" -> OpenDir(b)
    [] o = "Readlink" -> Readlink(b)
    [] o = "Rename" -> Rename(b)
    [] o = "Rmdir" -> Rmdir(b)
    [] o = "Symlink" -> Symlink(b)
    [] o = "Utimens" -> Utimens(b)
    [] o = "Mknod" -> Mknod(b)
    [] o = "Unlink" -> Unlink(b)
    [] o = "Truncate" -> Truncate(b)
    [] o = "Flush" -> Flush(b)
    [] o = "Read" -> Read(b)
    [] o = "FileTruncate" -> FileTruncate(b)

\* The response kind each handler's type assertion asks for.
Expected(o) ==
  CASE o = "Chmod" -> "ChmodResponse"
    [] o = "GetAttr" -> "AttrResponse"
    [] o = "Mkdir" -> "MkdirResponse"
    [] o = "Open" -> "OpenResponse"
    [] o = "OpenDir" -> "ReaddirResponse"
    [] o = "Readlink" -> "ReadlinkResponse"
    [] o = "Rename" -> "RenameResponse"
    [] o = "Rmdir" -> "RmdirResponse"
    [] o = "Symlink" -> "SymlinkResponse"
    [] o = "Utimens" -> "UtimeResponse"
    [] o = "Mknod" -> "MknodResponse"
    [] o = "Unlink" -> "UnlinkResponse"
    [] o = "Truncate" -> "TruncateResponse"
    [] o = "Flush" -> "CloseResponse"
    [] o = "Read" -> "ReadResponse"
    [] o = "FileTruncate" -> "TruncateResponse"

\* Mutant: the error of sendPacket is ignored.
WriteFailed_ok(o) == R("OK", -1)

\* What a handler returns when sendPacket returned an error.
WriteFailed(o) == IF o = "Readlink" THEN R("EIO", 0) ELSE R("EIO", -1)

\* ------------------------------------------------------------- handlers
Alive == ~crashed

\* A handler is entered: o(name, ...) up to its call of sendPacket.  The
\* request goes to the first idle goroutine (they are interchangeable).
Call(c, o, name, tnil) ==
  /\ Alive /\ pc[c] = "idle"
  /\ \A p \in Procs : p < c => pc[p] # "idle"
  /\ o \in FileOps => files # {}
  /\ IF o = "GetAttr" /\ name = ""
       THEN /\ pc' = [pc EXCEPT ![c] = "done"]
            /\ result' = [result EXCEPT ![c] = GetAttrRoot]
            /\ UNCHANGED <<late, ncalls, crashed>>
     ELSE IF o = "Utimens" /\ pbTime(tnil) = "PANIC"
       THEN /\ pc' = [pc EXCEPT ![c] = "panic"]
            /\ crashed' = TRUE
            /\ UNCHANGED <<result, late, ncalls>>
     ELSE /\ ncalls < MaxIds
          /\ ncalls' = ncalls + 1
          /\ pc' = [pc EXCEPT ![c] = "once"]
          /\ late' = [late EXCEPT ![c] = (why = "readerr")]
          /\ UNCHANGED <<result, crashed>>
  /\ op' = [op EXCEPT ![c] = o]
  /\ UNCHANGED <<initVars, regVars, rdrVars, chan, cid, resc, msg, files,
                 delivered, issued, wire>>

\* Mutant: a plain "if fs.vc == nil" test instead of sync.Once.
OnceDo_unguarded(c) ==
  /\ Alive /\ pc[c] = "once"
  /\ \/ /\ once \in {"fresh", "running"}
        /\ once' = "running"
        /\ pc' = [pc EXCEPT ![c] = "initConn"]
     \/ /\ once = "done"
        /\ once' = once
        /\ pc' = [pc EXCEPT ![c] = "lock"]
  /\ UNCHANGED <<connCalls, clients, loops, regVars, rdrVars, chan, op, cid,
                 resc, msg, result, late, files, ncalls, delivered, issued,
                 wire, crashed>>

\* Mutant: a caller that finds the initializer running does not wait for it.
OnceDo_nowait(c) ==
  /\ Alive /\ pc[c] = "once"
  /\ \/ /\ once = "fresh"
        /\ once' = "running"
        /\ pc' = [pc EXCEPT ![c] = "initConn"]
     \/ /\ once \in {"running", "done"}
        /\ once' = once
        /\ pc' = [pc EXCEPT ![c] = "lock"]
  /\ UNCHANGED <<connCalls, clients, loops, regVars, rdrVars, chan, op, cid,
                 resc, msg, result, late, files, ncalls, delivered, issued,
                 wire, crashed>>

\* fs.clientOnce.Do(fs.initClient): the first caller runs initClient, a caller
\* that finds it running waits, a later one passes.
OnceDo(c) ==
  /\ Alive /\ pc[c] = "once"
  /\ \/ /\ once = "fresh"
        /\ once' = "running"
        /\ pc' = [pc EXCEPT ![c] = "initConn"]
     \/ /\ once = "done"
        /\ once' = once
        /\ pc' = [pc EXCEPT ![c] = "lock"]
  /\ UNCHANGED <<connCalls, clients, loops, regVars, rdrVars, chan, op, cid,
                 resc, msg, result, late, files, ncalls, delivered, issued, wire, crashed>>

\* initClient: c := fs.clientConn()
initClientConn(c) ==
  /\ Alive /\ pc[c] = "initConn"
  /\ connCalls' = connCalls + 1
  /\ pc' = [pc EXCEPT ![c] = "initVC"]
  /\ UNCHANGED <<once, clients, loops, regVars, rdrVars, chan, op, cid, resc,
                 msg, result, late, files, ncalls, delivered, issued, wire, crashed>>

\* initClient: fs.vc = vfuse.NewClient(c)
initClientNew(c) ==
  /\ Alive /\ pc[c] = "initVC"
  /\ clients' = clients + 1
  /\ pc' = [pc EXCEPT ![c] = "initGo"]
  /\ UNCHANGED <<once, connCalls, loops, regVars, rdrVars, chan, op, cid, resc,
                 msg, result, late, files, ncalls, delivered, issued, wire, crashed>>

\* initClient: go fs.readFromClient(), and Do returns.
initClientGo(c) ==
  /\ Alive /\ pc[c] = "initGo"
  /\ loops' = loops + 1
  /\ rpc' = "read"
  /\ once' = "done"
  /\ pc' = [pc EXCEPT ![c] = "lock"]
  /\ UNCHANGED <<connCalls, clients, regVars, why, rpkt, rresc, npkts, orphans,
                 chan, op, cid, resc, msg, result, late, files, ncalls,
                 delivered, issued, wire, crashed>>

\* Mutant: nextID without fs.mu.
nextIDLock_nolock(c) ==
  /\ Alive /\ pc[c] = "lock"
  /\ mu' = c
  /\ chan' = Append(chan, <<>>)
  /\ resc' = [resc EXCEPT ![c] = Len(chan) + 1]
  /\ cid' = [cid EXCEPT ![c] = nextid]
  /\ pc' = [pc EXCEPT ![c] = "incr"]
  /\ UNCHANGED <<initVars, nextid, res, rdrVars, op, msg, result, late, files,
                 ncalls, delivered, issued, wire, crashed>>

\* nextID: fs.mu.Lock(); c := make(chan proto.Message, 1); id := fs.nextid
nextIDLock(c) ==
  /\ Alive /\ pc[c] = "lock"
  /\ mu = Free
  /\ mu' = c
  /\ chan' = Append(chan, <<>>)
  /\ resc' = [resc EXCEPT ![c] = Len(chan) + 1]
  /\ cid' = [cid EXCEPT ![c] = nextid]
  /\ pc' = [pc EXCEPT ![c] = "incr"]
  /\ UNCHANGED <<initVars, nextid, res, rdrVars, op, msg, result, late, files,
                 ncalls, delivered, issued, wire, crashed>>

\* Mutant: nextID hands out the id but leaves fs.res[id] for later.
nextIDStore_unregistered(c) ==
  /\ Alive /\ pc[c] = "incr"
  /\ nextid' = nextid + 1
  /\ res' = res
  /\ mu' = Free
  /\ issued' = Append(issued, cid[c])
  /\ pc' = [pc EXCEPT ![c] = "write"]
  /\ UNCHANGED <<initVars, rdrVars, chan, op, cid, resc, msg, result, late,
                 files, ncalls, delivered, wire, crashed>>

\* nextID: fs.nextid++; fs.res[id] = c; return (the deferred Unlock runs).
nextIDStore(c) ==
  /\ Alive /\ pc[c] = "incr"
  /\ nextid' = nextid + 1
  /\ res' = [i \in DOMAIN res \cup {cid[c]} |->
               IF i = cid[c] THEN resc[c] ELSE res[i]]
  /\ mu' = Free
  /\ issued' = Append(issued, cid[c])
  /\ pc' = [pc EXCEPT ![c] = "write"]
  /\ UNCHANGED <<initVars, rdrVars, chan, op, cid, resc, msg, result, late,
                 files, ncalls, delivered, wire, crashed>>

\* Mutant: the write error is dropped and the handler waits on its channel.
WritePacket_waits(c, ok) ==
  /\ Alive /\ pc[c] = "write"
  /\ wire' = IF ok THEN wire \cup {cid[c]} ELSE wire
  /\ pc' = [pc EXCEPT ![c] = "recv"]
  /\ UNCHANGED <<initVars, regVars, rdrVars, chan, op, cid, resc, msg, result,
                 late, files, ncalls, delivered, issued, crashed>>

\* sendPacket: fs.vc.WritePacket(...); on an error the handler returns EIO.
WritePacket(c, ok) ==
  /\ Alive /\ pc[c] = "write"
  /\ IF ok
       THEN /\ wire' = wire \cup {cid[c]}
            /\ pc' = [pc EXCEPT ![c] = "recv"]
            /\ UNCHANGED result
       ELSE /\ result' = [result EXCEPT ![c] = WriteFailed(op[c])]
            /\ pc' = [pc EXCEPT ![c] = "done"]
            /\ UNCHANGED wire
  /\ UNCHANGED <<initVars, regVars, rdrVars, chan, op, cid, resc, msg, late,
                 files, ncalls, delivered, issued, crashed>>

\* <-resc, the type assertion and the rest of the handler.
Recv(c) ==
  /\ Alive /\ pc[c] = "recv"
  /\ Len(chan[resc[c]]) > 0
  /\ LET m == Head(chan[resc[c]])
         r == Reply(op[c], m.body)
     IN /\ chan' = [chan EXCEPT ![resc[c]] = Tail(@)]
        /\ msg' = [msg EXCEPT ![c] = m]
        /\ result' = [result EXCEPT ![c] = r]
        /\ pc' = [pc EXCEPT ![c] = IF r.st = "PANIC" THEN "panic" ELSE "done"]
        /\ crashed' = (r.st = "PANIC")
        /\ files' = IF op[c] = "Open" /\ r.st = "OK"
                      THEN files \cup {r.pay} ELSE files
  /\ UNCHANGED <<initVars, regVars, rdrVars, op, cid, resc, late, ncalls,
                 delivered, issued, wire>>

\* A channel no goroutine can receive from any more is garbage: its buffer is
\* dropped.
Collect(ch, k) == IF k = NilChan THEN ch ELSE [ch EXCEPT ![k] = <<>>]

\* The handler has returned; its goroutine serves the next request.
Return(c) ==
  /\ Alive /\ pc[c] = "done"
  /\ pc' = [pc EXCEPT ![c] = "idle"]
  /\ op' = [op EXCEPT ![c] = "none"]
  /\ cid' = [cid EXCEPT ![c] = -1]
  /\ resc' = [resc EXCEPT ![c] = NilChan]
  /\ msg' = [msg EXCEPT ![c] = NoMsg]
  /\ result' = [result EXCEPT ![c] = NoResult]
  /\ late' = [late EXCEPT ![c] = FALSE]
  /\ chan' = Collect(chan, resc[c])
  /\ UNCHANGED <<initVars, regVars, rdrVars, files, ncalls, delivered, issued, wire,
                 crashed>>

\* -------------------------------------------------------- readFromClient
\* Mutant: the entry is not deleted.
forgetRequestLocked_noop(id) == res

forgetRequestLocked(id) == [i \in DOMAIN res \ {id} |-> res[i]]

\* Mutant: responses are taken to arrive in request order.
resLookup_oldest(id) ==
  IF DOMAIN res # {}
    THEN [ok |-> TRUE,
          resc |-> res[CHOOSE i \in DOMAIN res : \A j \in DOMAIN res : i <= j]]
  ELSE [ok |-> FALSE, resc |-> NilChan]

\* resc, ok := fs.res[id]
resLookup(id) ==
  IF id \in DOMAIN res THEN [ok |-> TRUE, resc |-> res[id]]
  ELSE [ok |-> FALSE, resc |-> NilChan]

\* The calls whose entry is registered and whose handler has not returned.
InFlight ==
  {cid[c] : c \in {p \in Procs : pc[p] \in {"write", "recv"}
                                  /\ cid[p] \in DOMAIN res}}

\* Mutant: a packet nobody asked for is skipped and the loop goes on.
ReadPacket_dropBogus(id, b) ==
  /\ Alive /\ rpc = "read"
  /\ npkts < MaxPkts
  /\ mu = Free
  /\ npkts' = npkts + 1
  /\ LET ok == resLookup(id).ok
     IN /\ rresc' = resLookup(id).resc
        /\ rpkt' = [id |-> id, body |-> IF ok THEN b ELSE NoBody]
        /\ res' = IF ok THEN forgetRequestLocked(id) ELSE res
        /\ rpc' = IF ok THEN "send" ELSE "read"
        /\ why' = why
  /\ UNCHANGED <<initVars, mu, nextid, orphans, chan, procVars, files, ncalls,
                 delivered, issued, wire, crashed>>

\* p, err := fs.vc.ReadPacket() with err == nil; then under fs.mu:
\* resc, ok := fs.res[id]; forget if ok; after Unlock, return if !ok.
ReadPacket(id, b) ==
  /\ Alive /\ rpc = "read"
  /\ npkts < MaxPkts
  /\ mu = Free
  /\ npkts' = npkts + 1
  /\ LET ok == resLookup(id).ok
     IN /\ rresc' = resLookup(id).resc
        /\ rpkt' = [id |-> id, body |-> IF ok THEN b ELSE NoBody]
        /\ res' = IF ok THEN forgetRequestLocked(id) ELSE res
        /\ rpc' = IF ok THEN "send" ELSE "dead"
        /\ why' = IF ok THEN why ELSE "bogus"
  /\ UNCHANGED <<initVars, mu, nextid, orphans, chan, procVars, files, ncalls,
                 delivered, issued, wire, crashed>>

\* Mutant: the loop logs the error and reads again.
ReadError_continue ==
  /\ Alive /\ rpc = "read"
  /\ why # "readerr"
  /\ rpc' = "read"
  /\ why' = "readerr"
  /\ orphans' = InFlight
  /\ UNCHANGED <<initVars, regVars, rpkt, rresc, npkts, chan, procVars, files,
                 ncalls, delivered, issued, wire, crashed>>

\* ReadPacket returned an error: log and return.
ReadError ==
  /\ Alive /\ rpc = "read"
  /\ rpc' = "dead"
  /\ why' = "readerr"
  /\ orphans' = InFlight
  /\ UNCHANGED <<initVars, regVars, rpkt, rresc, npkts, chan, procVars, files,
                 ncalls, delivered, issued, wire, crashed>>

\* resc <- p.Body: blocks while the channel's buffer is full.
readSend ==
  /\ Alive /\ rpc = "send"
  /\ Len(chan[rresc]) < ChanCap
  /\ chan' = IF \E c \in Procs : resc[c] = rresc
               THEN [chan EXCEPT ![rresc] =
                       Append(@, [hid |-> rpkt.id, body |-> rpkt.body])]
               ELSE chan
  /\ delivered' = [delivered EXCEPT ![rpkt.id] = @ + 1]
  /\ rpc' = "read"
  /\ rpkt' = NoPkt
  /\ rresc' = NilChan
  /\ UNCHANGED <<initVars, regVars, why, npkts, orphans, procVars, files,
                 ncalls, issued, wire, crashed>>

\* ------------------------------------------------------- specifications
Names == {"", "f"}

\* Spec: concurrent handlers against an arbitrary peer.  The operations and
\* bodies are few, with one of each outcome: Rmdir (status only, does not
\* return on a wrong type), Open (a payload, handle 0 refused), the root
\* GetAttr; a response with and without an Error record.
SpecOps == {"Rmdir", "Open"}

SpecBodies ==
  {b \in Bodies :
     \/ /\ b.kind = "RmdirResponse"
        /\ b.err.NotExist = b.err.present /\ ~b.err.ReadOnly /\ ~b.err.NotDir
     \/ b.kind = "OpenResponse" /\ ~b.err.present /\ b.pay = 0}

Next ==
  \/ \E c \in Procs, o \in SpecOps : Call(c, o, "f", FALSE)
  \/ \E c \in Procs : OnceDo(c)
  \/ \E c \in Procs : initClientConn(c)
  \/ \E c \in Procs : initClientNew(c)
  \/ \E c \in Procs : initClientGo(c)
  \/ \E c \in Procs : nextIDLock(c)
  \/ \E c \in Procs : nextIDStore(c)
  \/ \E c \in Procs, ok \in BOOLEAN : WritePacket(c, ok)
  \/ \E c \in Procs : Recv(c)
  \/ \E c \in Procs : Return(c)
  \/ \E id \in Ids, b \in SpecBodies : ReadPacket(id, b)
  \/ ReadError
  \/ readSend

Spec == Init /\ [][Next]_vars

\* SpecRelay: one handler goroutine, so the calls follow one another, with
\* every operation, every argument shape and every kind of response body;
\* the Error record is absent, names a known reason, or names none.
RelayBodies ==
  {b \in Bodies :
     /\ ~b.err.ReadOnly /\ ~b.err.NotDir
     /\ b.err.NotExist => b.err.present}

\* A packet whose id has no entry is dropped unread: one body stands for all.
BogusBody == CHOOSE b \in RelayBodies : ~b.err.present /\ b.pay = 0

\* The name matters to GetAttr only and a nil timestamp to Utimens only; of
\* a body of the wrong kind no handler reads more than its type.
NextRelay ==
  \/ \E o \in Ops, name \in Names, tnil \in BOOLEAN :
        /\ name = "" => o = "GetAttr"
        /\ tnil => o = "Utimens"
        /\ Call(1, o, name, tnil)
  \/ OnceDo(1)
  \/ initClientConn(1)
  \/ initClientNew(1)
  \/ initClientGo(1)
  \/ nextIDLock(1)
  \/ nextIDStore(1)
  \/ \E ok \in BOOLEAN : WritePacket(1, ok)
  \/ Recv(1)
  \/ Return(1)
  \/ \E id \in Ids, b \in RelayBodies :
        /\ id \notin DOMAIN res => b = BogusBody
        /\ (op[1] \notin Ops \/ b.kind # Expected(op[1])) =>
             (~b.err.present /\ b.pay = 0)
        /\ ReadPacket(id, b)
  \/ ReadError
  \/ readSend

SpecRelay == Init /\ [][NextRelay]_vars

\* SpecLive: the handlers of Spec with a transport that does not fail and a
\* well-behaved peer: no WritePacket error, no ReadPacket error, and for
\* every request on the wire one response, of the kind the request expects,
\* sent after the request and in any order.
Answered(id) == delivered[id] > 0 \/ (rpc = "send" /\ rpkt.id = id)

PeerResponds ==
  \E c \in Procs, b \in SpecBodies :
    /\ cid[c] \in wire
    /\ ~Answered(cid[c])
    /\ b.kind = Expected(op[c])
    /\ ReadPacket(cid[c], b)

\* The steps of the goroutine serving handler c once its call has begun.
HandlerStep(c) ==
  \/ OnceDo(c)
  \/ initClientConn(c)
  \/ initClientNew(c)
  \/ initClientGo(c)
  \/ nextIDLock(c)
  \/ nextIDStore(c)
  \/ WritePacket(c, TRUE)
  \/ Recv(c)
  \/ Return(c)

NextLive ==
  \/ \E c \in Procs, o \in SpecOps : Call(c, o, "f", FALSE)
  \/ \E c \in Procs : HandlerStep(c)
  \/ PeerResponds
  \/ readSend

\* The Go scheduler runs every goroutine that stays runnable, and the peer
\* answers every request it has received.
Fairness ==
  /\ \A c \in Procs : WF_vars(HandlerStep(c))
  /\ WF_vars(PeerResponds)
  /\ WF_vars(readSend)

SpecLive == Init /\ [][NextLive]_vars /\ Fairness

\* SpecErr: one handler, every operation; the peer answers the request that
\* is out, in the kind it expects, with any Error record (all combinations of
\* the three reasons) and any payload.
AnswerAnyErr ==
  \E b \in Bodies :
    /\ pc[1] = "recv"
    /\ b.kind = Expected(op[1])
    /\ ReadPacket(cid[1], b)

NextErr ==
  \/ \E o \in Ops : Call(1, o, "f", FALSE)
  \/ OnceDo(1)
  \/ initClientConn(1)
  \/ initClientNew(1)
  \/ initClientGo(1)
  \/ nextIDLock(1)
  \/ nextIDStore(1)
  \/ \E ok \in BOOLEAN : WritePacket(1, ok)
  \/ Recv(1)
  \/ Return(1)
  \/ AnswerAnyErr
  \/ ReadError
  \/ readSend

SpecErr == Init /\ [][NextErr]_vars

\* ------------------------------------------------------------------ claims
Received(c) == msg[c] # NoMsg

\* C1: the message a handler receives from the channel of its own sendPacket
\* call is the body of the packet whose Header.ID is the id nextID gave that
\* call, and so is any message waiting in that channel.
NoCrossTalk ==
  \A c \in Procs :
    /\ Received(c) => msg[c].hid = cid[c]
    /\ resc[c] # NilChan =>
         \A k \in 1..Len(chan[resc[c]]) : chan[resc[c]][k].hid = cid[c]

\* Two calls are out; the later one has its answer, the earlier one waits.
NoCrossTalkWitness ==
  \E c, d \in Procs :
    /\ cid[c] >= 0 /\ cid[c] < cid[d]
    /\ pc[c] = "recv" /\ ~Received(c)
    /\ Received(d) /\ msg[d].hid = cid[d]

\* C2: nextID returns 0, 1, 2, ... in the order fs.mu is acquired, never an
\* id twice; every id a handler holds and every key of fs.res is below
\* fs.nextid (the id nextID is about to return excepted).
NextIDUnique ==
  /\ \A k \in 1..Len(issued) : issued[k] = k - 1
  /\ \A c, d \in Procs : (c # d /\ cid[c] >= 0) => cid[c] # cid[d]
  /\ \A c \in Procs :
       cid[c] >= 0 => \/ cid[c] < nextid
                      \/ pc[c] = "incr" /\ cid[c] = nextid
  /\ \A i \in DOMAIN res : i < nextid

NextIDUniqueWitness ==
  /\ Len(issued) >= 2
  /\ \E c, d \in Procs : c # d /\ cid[c] >= 0 /\ cid[d] >= 0
  /\ DOMAIN res # {}

\* C3: at most one body is ever sent into the channel registered for an id;
\* a packet that repeats an id already answered finds no entry, goes to no
\* caller and ends the loop as a bogus packet.
AtMostOneDelivery ==
  /\ \A i \in Ids : delivered[i] <= 1
  /\ (rpkt # NoPkt /\ delivered[rpkt.id] >= 1) =>
       (rpc = "dead" /\ why = "bogus" /\ rresc = NilChan)

AtMostOneDeliveryWitness ==
  /\ why = "bogus"
  /\ rpkt # NoPkt
  /\ delivered[rpkt.id] = 1

\* C4: initClient runs once: clientConn is called at most once, one client is
\* made and one readFromClient loop started, however many handlers race into
\* sendPacket and however many calls follow.
InitOnce ==
  /\ connCalls <= 1 /\ clients <= 1 /\ loops <= 1
  /\ Cardinality({c \in Procs : pc[c] \in {"initConn", "initVC", "initGo"}}) <= 1
  /\ once = "fresh" => (connCalls = 0 /\ clients = 0 /\ loops = 0)
  /\ once = "done" => (connCalls = 1 /\ clients = 1 /\ loops = 1)
  /\ rpc # "off" => once = "done"

InitOnceWitness ==
  /\ once = "done" /\ connCalls = 1 /\ loops = 1
  /\ Len(issued) >= 2

\* C5: when readFromClient is at "resc <- p.Body" the channel's buffer is
\* empty, and so is the buffer of every channel still registered, so the send
\* never blocks, whether or not the handler has reached its receive.
DispatchNeverBlocks ==
  /\ rpc = "send" => Len(chan[rresc]) = 0
  /\ \A i \in DOMAIN res : Len(chan[res[i]]) = 0

\* The read loop is about to send to a handler that has not written yet.
DispatchNeverBlocksWitness ==
  /\ rpc = "send"
  /\ \E c \in Procs : resc[c] = rresc /\ pc[c] = "write"

\* C6: a packet whose id has no entry is fatal: on that step no channel gets
\* its body and fs.res is unchanged, the loop ends, and from then on nothing
\* is read or sent to any channel.
BogusStep ==
  (rpc = "read" /\ npkts' = npkts + 1 /\ rpkt'.id \notin DOMAIN res) =>
    /\ rpc' = "dead" /\ why' = "bogus"
    /\ res' = res /\ chan' = chan /\ delivered' = delivered

AfterBogus ==
  why = "bogus" =>
    /\ rpc' = "dead" /\ why' = "bogus"
    /\ npkts' = npkts /\ delivered' = delivered
    /\ \A k \in 1..Len(chan) : Len(chan'[k]) <= Len(chan[k])

BogusIsFatal == [][BogusStep /\ AfterBogus]_vars

BogusIsFatalWitness ==
  /\ why = "bogus" /\ rpc = "dead"
  /\ \E c \in Procs : pc[c] = "recv" /\ cid[c] \in DOMAIN res

\* C7, as stated: every call in flight (entry registered, handler not yet
\* returned) when ReadPacket fails never returns a status.
OrphansNeverReturn ==
  \A c \in Procs :
    (why = "readerr" /\ cid[c] \in orphans) => pc[c] \in {"write", "recv"}

\* C7, amended: after the first ReadPacket error the loop stays ended and
\* initClient is not run again; a call in flight at that moment never gets a
\* message; once it waits on its channel it waits for ever, and it returns
\* only if its WritePacket had not run yet and fails, with EIO.
OrphanState(c) ==
  /\ ~Received(c)
  /\ Len(chan[resc[c]]) = 0
  /\ pc[c] \in {"write", "recv", "done"}
  /\ pc[c] = "done" => (result[c] = WriteFailed(op[c]) /\ cid[c] \notin wire)

ReadErrorStep ==
  why = "readerr" =>
    /\ rpc' = "dead" /\ why' = "readerr"
    /\ connCalls' = connCalls /\ clients' = clients /\ loops' = loops
    /\ npkts' = npkts /\ orphans' = orphans
    /\ \A c \in Procs :
         (cid[c] \in orphans /\ pc[c] = "recv") => (pc'[c] = "recv" /\ cid'[c] = cid[c])

OrphansInv ==
  why = "readerr" => \A c \in Procs : cid[c] \in orphans => OrphanState(c)

ReadErrorIsFinal == [][ReadErrorStep /\ OrphansInv']_vars

ReadErrorIsFinalWitness ==
  /\ why = "readerr" /\ rpc = "dead"
  /\ \E c \in Procs : cid[c] \in orphans /\ pc[c] = "recv"

\* C8: a call issued after the loop ended on a read error returns EIO from the
\* failed write or waits on an empty channel; it never gets a message, and no
\* call holds a message that came under another id.
LateCallsFailOrHang ==
  /\ \A c \in Procs :
       late[c] =>
         /\ why = "readerr" /\ rpc = "dead"
         /\ ~Received(c)
         /\ resc[c] # NilChan => Len(chan[resc[c]]) = 0
         /\ pc[c] \in {"done", "panic"} =>
              (result[c].st = "EIO" /\ cid[c] \notin wire)
  /\ \A c \in Procs : Received(c) => msg[c].hid = cid[c]

\* A call issued after the read error has written its request and waits.
LateCallsFailOrHangWitness ==
  \E c \in Procs :
    late[c] /\ pc[c] = "recv" /\ cid[c] \in wire /\ cid[c] \in DOMAIN res

\* C9: a response of another kind than the handler expects makes the call
\* return EIO.
KindMismatchIsEIO ==
  \A c \in Procs :
    (Received(c) /\ msg[c].body.kind # Expected(op[c])) =>
      (pc[c] = "done" /\ result[c].st = "EIO")

\* What "no payload" is for each handler's result type.
NoPayload(o, r) ==
  CASE o = "Readlink" -> r.pay = 0
    [] o = "OpenDir" -> r.pay <= 0
    [] OTHER -> r.pay = -1

\* C10: a response of the expected kind with an Error record makes the call
\* return fuseError of that record, and no payload.
RemoteErrorNoPayload ==
  \A c \in Procs :
    (Received(c) /\ msg[c].body.kind = Expected(op[c]) /\ msg[c].body.err.present) =>
      /\ pc[c] = "done"
      /\ result[c].st = fuseError(msg[c].body.err)
      /\ NoPayload(op[c], result[c])

\* The handlers that return fuseError(res.Err) whatever res.Err is.
StatusOps ==
  {"Chmod", "Mkdir", "Rename", "Rmdir", "Symlink", "Utimens", "Mknod",
   "Unlink", "Truncate", "Flush", "FileTruncate"}

\* The status of one reason.
ReasonStatus(e) ==
  (IF e.NotExist THEN {"ENOENT"} ELSE {}) \cup
  (IF e.ReadOnly THEN {"EROFS"} ELSE {}) \cup
  (IF e.NotDir THEN {"ENOTDIR"} ELSE {})

\* C11: for every combination of the reason flags the status a handler gets
\* from fuseError is: OK for no Error record; for a record, never OK: EIO when
\* no reason is set, else the status of a reason that is set (ENOENT for
\* not-found, EROFS for read-only, ENOTDIR for not-a-directory).
ErrorMapping ==
  \A c \in Procs :
    (pc[c] = "done" /\ Received(c) /\ op[c] \in StatusOps
       /\ msg[c].body.kind = Expected(op[c])) =>
      LET e  == msg[c].body.err
          st == result[c].st
      IN /\ ~e.present => st = "OK"
         /\ e.present => st # "OK"
         /\ (e.present /\ ReasonStatus(e) = {}) => st = "EIO"
         /\ ReasonStatus(e) # {} => st \in ReasonStatus(e)
         /\ e.NotExist => st = "ENOENT"

\* A record with two reasons set, and one with none, have been mapped.
ErrorMappingWitness ==
  \E c \in Procs :
    /\ pc[c] = "done" /\ Received(c) /\ op[c] \in StatusOps
    /\ msg[c].body.err.present
    /\ msg[c].body.err.ReadOnly /\ msg[c].body.err.NotDir
    /\ ~msg[c].body.err.NotExist
    /\ result[c].st = "EROFS"

\* The write of handler c's request has failed and the call is over.
WriteErrored(c) ==
  pc[c] = "done" /\ cid[c] # -1 /\ cid[c] \notin wire

\* C12: a handler whose WritePacket fails returns EIO at once, with no
\* payload and without having read its channel; the request is never written
\* later, and only a handler whose request was written waits on its channel.
WriteErrorIsEIO ==
  \A c \in Procs :
    /\ WriteErrored(c) =>
         /\ result[c].st = "EIO"
         /\ result[c] = WriteFailed(op[c])
         /\ ~Received(c)
    /\ pc[c] = "recv" => cid[c] \in wire

WriteErrorIsEIOWitness ==
  \E c \in Procs : WriteErrored(c) /\ op[c] = "Truncate" /\ result[c].st = "EIO"

\* C13: GetAttr on the root (the one call that goes from idle to done in a
\* single step) returns OK with the directory attribute and leaves the Once,
\* the connection, the read loop, the id counter, the registry, the channels
\* and the wire as they were, whatever state the FS is in.
RootGetAttrIsLocal ==
  [][\A c \in Procs :
       (pc[c] = "idle" /\ pc'[c] = "done") =>
          /\ op'[c] = "GetAttr"
          /\ result'[c] = R("OK", 1)
          /\ UNCHANGED <<initVars, regVars, rdrVars, chan, wire, issued,
                         delivered, ncalls, files, cid, resc, msg, crashed>>]_vars

\* The root was answered after the read loop had died.
RootGetAttrIsLocalWitness ==
  \E c \in Procs :
    /\ pc[c] = "done" /\ op[c] = "GetAttr" /\ cid[c] = -1
    /\ result[c] = R("OK", 1)
    /\ rpc = "dead" /\ DOMAIN res # {}

\* The outcomes C14 is about, for the message m a handler running o received.
TypeMismatch(o, m) == m.body.kind # Expected(o)

RemoteError(o, m) == m.body.kind = Expected(o) /\ m.body.err.present

InvalidHandle(o, m) ==
  o = "Open" /\ m.body.kind = Expected(o) /\ ~m.body.err.present
    /\ m.body.pay = 0

\* C14: the step in which a handler observes a type mismatch, a remote error
\* or an invalid handle ends that call only: the process and its read loop
\* keep running, and the registry and the channels of the other handlers are
\* as they were, so the other calls can still be answered.
OutcomesAreLocal ==
  [][\A c \in Procs :
       (pc[c] = "recv" /\ pc'[c] # "recv"
          /\ (\/ TypeMismatch(op[c], msg'[c])
              \/ RemoteError(op[c], msg'[c])
              \/ InvalidHandle(op[c], msg'[c]))) =>
         /\ pc'[c] = "done"
         /\ ~crashed'
         /\ rpc' = rpc /\ why' = why
         /\ res' = res
         /\ \A d \in Procs \ {c} :
              /\ pc'[d] = pc[d]
              /\ resc[d] # NilChan => chan'[resc[d]] = chan[resc[d]]]_vars

\* C15: every Utimens call, with absent timestamps or present ones, builds
\* its request and enters sendPacket: the call does not end, and the process
\* does not fail, before the request is written.
UtimensNilIsSent ==
  [][\A c \in Procs :
       (pc[c] = "idle" /\ op'[c] = "Utimens") =>
          (pc'[c] = "once" /\ ~crashed')]_vars

\* C16: Open returns OK, with a file object, exactly when the response is an
\* OpenResponse with no Error record and a handle other than 0; handle 0
\* with no Error record gives EIO and no file object; no file object holds
\* handle 0.
OpenHandleNonZero ==
  /\ 0 \notin files
  /\ \A c \in Procs :
       (op[c] = "Open" /\ pc[c] = "done" /\ Received(c)) =>
         LET b == msg[c].body
             good == b.kind = "OpenResponse" /\ ~b.err.present /\ b.pay # 0
         IN /\ result[c].st = "OK" <=> good
            /\ good => (result[c].pay = b.pay /\ b.pay \in files)
            /\ ~good => result[c].pay = -1
            /\ (b.kind = "OpenResponse" /\ ~b.err.present /\ b.pay = 0) =>
                 result[c].st = "EIO"

\* An Open was answered with handle 0 and no Error record.
OpenHandleNonZeroWitness ==
  \E c \in Procs :
    /\ op[c] = "Open" /\ pc[c] = "done" /\ Received(c)
    /\ msg[c].body.kind = "OpenResponse"
    /\ ~msg[c].body.err.present /\ msg[c].body.pay = 0
    /\ result[c] = R("EIO", -1)

\* C17: when the read loop reads the first packet that carries the id of a
\* request that has been written, the registry holds the entry nextID made
\* for that id: the packet is dispatched to that entry's channel and is not
\* taken for a bogus packet.
ResponseFindsEntry ==
  [][(rpc = "read" /\ npkts' = npkts + 1
        /\ rpkt'.id \in wire /\ delivered[rpkt'.id] = 0) =>
       /\ rpkt'.id \in DOMAIN res
       /\ rresc' = res[rpkt'.id]
       /\ rpc' = "send"
       /\ why' = why]_vars

\* The response to a written request was found while its handler waits and
\* another handler is inside nextID.
ResponseFindsEntryWitness ==
  /\ rpc = "send" /\ rpkt.id \in wire
  /\ \E c, d \in Procs :
       /\ cid[c] = rpkt.id /\ pc[c] = "recv"
       /\ pc[d] = "incr"

\* Handler c is, or is about to be, waiting on the channel registered for i.
WaitsOn(c, i) == cid[c] = i /\ pc[c] \in {"write", "recv"}

\* The write of the request with id i failed: no handler is before or in
\* that write and the id never reached the wire.
WriteFailedFor(i) ==
  i \notin wire /\ \A c \in Procs : cid[c] = i => pc[c] = "done"

\* C18 as stated: a call whose write failed has no entry left, a delivered
\* response has none, and every key of fs.res belongs to a handler that is
\* or is about to be waiting on its channel.
EntriesEndWithCall ==
  /\ \A c \in Procs : WriteErrored(c) => cid[c] \notin DOMAIN res
  /\ \A c \in Procs : Received(c) => cid[c] \notin DOMAIN res
  /\ \A i \in DOMAIN res : \E c \in Procs : WaitsOn(c, i)

\* C18, amended: the entry of a delivered response is gone; every key of
\* fs.res belongs either to a handler that is or is about to be waiting on
\* its channel, or to a call whose write failed, whose entry stays until a
\* packet with its id is read.
EntriesEndWithDelivery ==
  /\ \A c \in Procs : Received(c) => cid[c] \notin DOMAIN res
  /\ rpc = "send" => rpkt.id \notin DOMAIN res
  /\ \A i \in DOMAIN res :
       \/ \E c \in Procs : WaitsOn(c, i)
       \/ WriteFailedFor(i)
  /\ \A c \in Procs : WriteErrored(c) =>
       \/ cid[c] \in DOMAIN res
       \/ delivered[cid[c]] > 0
       \/ rpc = "send" /\ rpkt.id = cid[c]

\* A call has returned after a failed write and its entry is still there,
\* while a response has been delivered and its entry is gone.
EntriesEndWithDeliveryWitness ==
  /\ \E i \in DOMAIN res : i \notin wire /\ \A c \in Procs : cid[c] # i
  /\ \E c \in Procs : Received(c) /\ cid[c] \notin DOMAIN res

\* initClient has run to its end, once: the connection was taken, fs.vc
\* assigned and the read loop started.
InitClientCompleted ==
  once = "done" /\ connCalls = 1 /\ clients = 1 /\ loops = 1 /\ rpc # "off"

\* C20: a handler that has left clientOnce.Do, whether it ran initClient or
\* found another caller running it, goes on to nextID and WritePacket only
\* after initClient has completed; so no packet is on the wire before that.
WriteAfterInit ==
  /\ \A c \in Procs :
       pc[c] \in {"lock", "incr", "write", "recv"} => InitClientCompleted
  /\ wire # {} => InitClientCompleted

\* The first two calls of the FS ran concurrently and both are at their
\* WritePacket; only one of them ran initClient.
WriteAfterInitWitness ==
  /\ \E c, d \in Procs : c # d /\ pc[c] = "write" /\ pc[d] = "write"
  /\ wire = {} /\ ncalls = 2
  /\ InitClientCompleted

\* Handler c is inside a call that goes through sendPacket.
InCall(c) == pc[c] \notin {"idle", "done", "panic"}

\* C19: with a transport that does not fail, a peer that answers every
\* request once in the expected kind, and fair scheduling, every handler
\* that entered sendPacket eventually holds the response to its own request
\* and returns; and, the calls being finitely many, the registry becomes
\* empty and stays empty.
LivePeerProgress ==
  /\ \A c \in Procs :
       InCall(c) ~> (pc[c] = "done" /\ Received(c) /\ msg[c].hid = cid[c])
  /\ <>[](res = EmptyRes)

\* Every call the bound allows has been answered and the registry is empty.
LivePeerProgressWitness ==
  /\ ncalls = MaxIds
  /\ \A i \in 0..(MaxIds - 1) : delivered[i] = 1
  /\ res = EmptyRes
  /\ \E c \in Procs : pc[c] = "done" /\ Received(c)

====
